---- MODULE Spec2Model ----
(***************************************************************************)
(* Model of saas/views/legal.py: the agreement detail, list and sign       *)
(* views, the signature form, the Markdown resource lookup and the         *)
(* redirect-target computation of the sign view.                           *)
(*                                                                         *)
(* Strings the code inspects character by character (URLs, hosts) are      *)
(* sequences of one-character strings.  The state is the database (the     *)
(* Agreement records, the Signature records), the template resources       *)
(* that exist, and the last request handled with its response.             *)
(***************************************************************************)
EXTENDS Integers, Sequences, FiniteSets, TLC

VARIABLES agreements, templates, signatures, request, response

vars == <<agreements, templates, signatures, request, response>>

----------------------------------------------------------------------------
(* Bounds *)

\* Longest redirect URL drawn, in characters.
MaxUrlLen == 5

\* Most Signature records created in one behaviour.
MaxSignatures == 1

----------------------------------------------------------------------------
(* Universe of inputs *)

SLUGS == {"tos", "privacy"}

PROVIDERS == {"p1", "p2"}

USERS == {"alice", "bob"}

\* Characters of the URLs drawn: two letters, and the delimiters urlparse
\* looks at.
Chars == {"m", "e", ":", "/", "?"}

Digits == {"0", "1", "2", "3", "4", "5", "6", "7", "8", "9"}

\* urlparse.scheme_chars: letters, digits and "+-.".
SchemeChars == {"m", "e", "+", "-", "."} \cup Digits

\* Values of request.get_host().
HOSTS == {<<"m">>, <<"e">>}

SeqsUpTo(S, n) == UNION {[1..k -> S] : k \in 0..n}

AllUrls == SeqsUpTo(Chars, MaxUrlLen)

\* The redirect urls of the main specification: "m://e", a url with a scheme
\* on another host than the site's, in the query string, and "/m", a path
\* without host, in the POST data or missing from it.
OtherHostUrl == <<"m", ":", "/", "/", "e">>

PathUrl == <<"/", "m">>

\* A request parameter is the set of its values: empty when the parameter is
\* missing from the query dictionary, a singleton when it is present.
Optional(S) == {{}} \cup {{u} : u \in S}

\* Values of the read_terms field in the POST data; Missing: not submitted
\* (what a browser sends for an unchecked checkbox).
Missing == "<missing>"

ReadTermsData == {"on", "false", Missing}

----------------------------------------------------------------------------
(* settings, broker *)

\* settings.LOGIN_REDIRECT_URL, a path on the site itself.
LOGIN_REDIRECT_URL == <<"/", "e">>

\* get_broker(): the organization of the site.
get_broker == "broker"

----------------------------------------------------------------------------
(* urlparse.urlparse(url)[1], as line 146 uses it *)

\* s[from..], 1-based; empty when from is past the end.
Tail_from(s, from) == SubSeq(s, from, Len(s))

\* str.find(c, start): the first position >= start holding c, 0 when none
\* (positions are 1-based here, so Python's -1 is 0 and Python's i is i+1).
find(s, c, start) ==
    LET hits == {i \in start..Len(s) : s[i] = c}
    IN  IF hits = {} THEN 0 ELSE CHOOSE i \in hits : \A j \in hits : i <= j

\* urlsplit's scheme step: a scheme is split off when the text before the
\* first ":" is non-empty, made of scheme characters, and what follows is not
\* a port number.  Returns the url that is left.
strip_scheme(url) ==
    LET i    == find(url, ":", 1)
        rest == Tail_from(url, i + 1)
    IN  IF /\ i > 1
           /\ \A k \in 1..(i - 1) : url[k] \in SchemeChars
           /\ (rest = <<>> \/ \E k \in 1..Len(rest) : rest[k] \notin Digits)
        THEN rest
        ELSE url

\* _splitnetloc(url, 2): the domain ends at the earliest of "/", "?", "#"
\* found after the leading "//", or at the end of the url.
splitnetloc(url) ==
    LET ends  == {find(url, c, 3) : c \in {"/", "?", "#"}} \ {0}
        delim == IF ends = {} THEN Len(url) + 1
                 ELSE CHOOSE d \in ends : \A x \in ends : d <= x
    IN  SubSeq(url, 3, delim - 1)

\* The network location of a url: what follows a leading "//" once the
\* scheme is split off, empty when there is no leading "//".
urlparse_netloc(url) ==
    LET u == strip_scheme(url)
    IN  IF Len(u) >= 2 /\ u[1] = "/" /\ u[2] = "/"
        THEN splitnetloc(u)
        ELSE <<>>

----------------------------------------------------------------------------
(* AgreementSignView.get_success_url *)

\* request.REQUEST.get(name, default): REQUEST merges POST and GET, POST
\* looked up first; the default only when the parameter is in neither.
REQUEST_get(req, default) ==
    IF req.POST_next # {} THEN CHOOSE u \in req.POST_next : TRUE
    ELSE IF req.GET_next # {} THEN CHOOSE u \in req.GET_next : TRUE
    ELSE default

\* Mutant: the host comparison dropped (no guard against other hosts).
get_success_url_unguarded(req) == REQUEST_get(req, LOGIN_REDIRECT_URL)

\* Mutant: every url that names a host is discarded, the site's own too.
get_success_url_any_host(req) ==
    LET redirect_to == REQUEST_get(req, LOGIN_REDIRECT_URL)
    IN  IF urlparse_netloc(redirect_to) # <<>>
        THEN LOGIN_REDIRECT_URL
        ELSE redirect_to

get_success_url(req) ==
    LET redirect_to == REQUEST_get(req, LOGIN_REDIRECT_URL)
        netloc      == urlparse_netloc(redirect_to)
    IN  IF netloc # <<>> /\ netloc # req.host
        THEN LOGIN_REDIRECT_URL
        ELSE redirect_to

----------------------------------------------------------------------------
(* Responses *)

NoPage == [source |-> <<>>, organization |-> ""]

\* No request handled yet.
NoResponse ==
    [status |-> 0, location |-> <<>>, context |-> {}, page |-> NoPage,
     agreement_list |-> {}]

\* Http404, turned into a not-found response by the framework.
NotFound == [NoResponse EXCEPT !.status = 404]

\* An exception that is not Http404 and that nothing catches: a server error.
ServerError == [NoResponse EXCEPT !.status = 500]

HttpResponseRedirect(url) == [NoResponse EXCEPT !.status = 302, !.location = url]

\* What the docstrings of the three views list in the template context
\* beside the view's own variables.
DocumentedContext == {"organization", "request"}

\* A template rendered with the context of a view.
render_to_response(ctx) ==
    [NoResponse EXCEPT !.status = 200,
                       !.context = ctx.keys \cup DocumentedContext,
                       !.page = ctx.page,
                       !.agreement_list = ctx.agreement_list]

----------------------------------------------------------------------------
(* _read_agreement_file *)

\* The resource name the class docstring gives: saas/agreements/<slug>.md
documented_template_name(slug) == <<"saas/agreements/", slug, ".md">>

\* 'saas/agreements/legal_%s.md' % slug
agreement_template_name(slug) == <<"saas/agreements/legal_", slug, ".md">>

\* The template resources that exist: under the names the code looks up, for
\* any of the slugs, or under the documented names only.
TemplateStores ==
    (SUBSET {agreement_template_name(s) : s \in SLUGS})
        \cup {{documented_template_name(s) : s \in SLUGS}}

\* loader.find_template(name) raises TemplateDoesNotExist when no resource
\* has the name (found = FALSE); otherwise the source is rendered with the
\* broker as organization and converted to HTML.
read_agreement_file(tpls, slug) ==
    LET name == agreement_template_name(slug)
    IN  IF name \in tpls
        THEN [found |-> TRUE,
              page  |-> [source |-> name, organization |-> get_broker]]
        ELSE [found |-> FALSE, page |-> NoPage]

----------------------------------------------------------------------------
(* Database *)

\* An Agreement record; the slug is its key.
Agreement == [slug : SLUGS, provider : PROVIDERS]

\* Sets of Agreement records with distinct slugs.
AgreementTables ==
    {t \in SUBSET Agreement : \A a, b \in t : a.slug = b.slug => a = b}

\* Signature.objects.create_signature(slug, user)
create_signature(sigs, slug, user) ==
    Append(sigs, [user |-> user, agreement |-> slug])

\* The agreements in the scope of a provider (ProviderMixin).
provider_agreements(ags, provider) == {a \in ags : a.provider = provider}

has_agreement(ags, slug) == \E a \in ags : a.slug = slug

----------------------------------------------------------------------------
(* AgreementDetailView *)

\* Mutant: the page is left out of the context.
AgreementDetailView_get_context_data_nopage(tpls, slug) ==
    [found |-> TRUE, keys |-> {"object", "agreement", "view"},
     page |-> NoPage, agreement_list |-> {}]

\* get_context_data: the context of DetailView (object, agreement, view)
\* updated with the page read for the agreement's slug.
AgreementDetailView_get_context_data(tpls, slug) ==
    LET r == read_agreement_file(tpls, slug)
    IN  [found |-> r.found,
         keys |-> {"object", "agreement", "view", "page"},
         page |-> r.page, agreement_list |-> {}]

\* GET of the detail page: the object is looked up by slug (Http404 when
\* there is none), then the context is built and the template rendered.
AgreementDetailView_get(ags, tpls, slug) ==
    IF ~has_agreement(ags, slug) THEN NotFound
    ELSE LET ctx == AgreementDetailView_get_context_data(tpls, slug)
         IN  IF ctx.found THEN render_to_response(ctx) ELSE ServerError

----------------------------------------------------------------------------
(* AgreementListView *)

\* Mutant: the view takes every Agreement record, whatever the provider.
AgreementListView_get_queryset_all(ags, provider) == ags

\* The view sets model = Agreement and adds no filter or order of its own:
\* the list is the provider's agreements.
AgreementListView_get_queryset(ags, provider) ==
    provider_agreements(ags, provider)

AgreementListView_get(ags, provider) ==
    render_to_response(
        [keys |-> {"agreement_list", "object_list", "view"},
         page |-> NoPage,
         agreement_list |-> AgreementListView_get_queryset(ags, provider)])

----------------------------------------------------------------------------
(* SignatureForm *)

\* Mutant: any submitted text counts as checked, as bool('false') would.
read_terms_clean_truthy(data) == data # Missing

\* The cleaned value of read_terms: CheckboxInput reads a field that was not
\* submitted as False, and the texts for false as False; all else is True.
read_terms_clean(data) == data \notin {Missing, "false", "False", "0"}

\* read_terms is a required BooleanField: the form validates only when the
\* cleaned value is True.
SignatureForm_is_valid(data) == read_terms_clean(data)

----------------------------------------------------------------------------
(* AgreementSignView *)

\* get_context_data: the context of the form view updated with the page
\* read for the slug of the agreement in the context.
AgreementSignView_get_context_data(tpls, slug) ==
    LET r == read_agreement_file(tpls, slug)
    IN  [found |-> r.found,
         keys |-> {"form", "agreement", "view", "page"},
         page |-> r.page, agreement_list |-> {}]

\* The sign page rendered, on GET and by form_invalid: the agreement of the
\* url is taken from the context, then the page is read.
AgreementSignView_render(ags, tpls, slug) ==
    IF ~has_agreement(ags, slug) THEN NotFound
    ELSE LET ctx == AgreementSignView_get_context_data(tpls, slug)
         IN  IF ctx.found THEN render_to_response(ctx) ELSE ServerError

form_invalid(db, tpls, req) ==
    [agreements |-> db.agreements, signatures |-> db.signatures,
     response |-> AgreementSignView_render(db.agreements, tpls, req.slug)]

\* Mutant: the return of the redirect is lost, so that the signature is
\* created and the form redisplayed by the final form_invalid.
form_valid_no_return(db, tpls, req) ==
    [agreements |-> db.agreements,
     signatures |-> create_signature(db.signatures, req.slug, req.user),
     response   |-> form_invalid(db, tpls, req).response]

\* Mutant: the form_valid of CreateView is called too, which saves an object
\* of the view's model, an Agreement.
form_valid_super(db, tpls, req) ==
    [agreements |-> db.agreements
                      \cup {[slug |-> req.slug, provider |-> "p1"]},
     signatures |-> create_signature(db.signatures, req.slug, req.user),
     response   |-> HttpResponseRedirect(get_success_url(req))]

\* form_valid: with read_terms cleaned to True, create the signature for
\* the slug of the url and the user of the request, and redirect.
form_valid(db, tpls, req) ==
    IF read_terms_clean(req.read_terms)
    THEN [agreements |-> db.agreements,
          signatures |-> create_signature(db.signatures, req.slug, req.user),
          response   |-> HttpResponseRedirect(get_success_url(req))]
    ELSE form_invalid(db, tpls, req)

\* POST of the sign form: the form is built from the POST data and
\* validated; form_valid or form_invalid answers.
AgreementSignView_post(db, tpls, req) ==
    IF SignatureForm_is_valid(req.read_terms)
    THEN form_valid(db, tpls, req)
    ELSE form_invalid(db, tpls, req)

----------------------------------------------------------------------------
(* Requests *)

\* The host the views are served on in the main specification.
SiteHost == <<"m">>

Request(view, method, slug, provider, user, host, read_terms, pnext, gnext) ==
    [POST_next |-> pnext, GET_next |-> gnext, host |-> host, slug |-> slug,
     provider |-> provider, user |-> user, read_terms |-> read_terms,
     view |-> view, method |-> method]

NoRequest ==
    Request("none", "none", "tos", "p1", "alice", SiteHost, Missing, {}, {})

DB == [agreements |-> agreements, signatures |-> signatures]

----------------------------------------------------------------------------
(* Actions: one request handled *)

DetailGet ==
    \E slug \in SLUGS :
        /\ request' = Request("detail", "GET", slug, "p1", "alice", SiteHost,
                              Missing, {}, {})
        /\ response' = AgreementDetailView_get(agreements, templates, slug)
        /\ UNCHANGED <<agreements, templates, signatures>>

ListGet ==
    \E provider \in PROVIDERS :
        /\ request' = Request("list", "GET", "tos", provider, "alice",
                              SiteHost, Missing, {}, {})
        /\ response' = AgreementListView_get(agreements, provider)
        /\ UNCHANGED <<agreements, templates, signatures>>

SignGet ==
    \E slug \in SLUGS :
        /\ request' = Request("sign", "GET", slug, "p1", "alice", SiteHost,
                              Missing, {}, {})
        /\ response' = AgreementSignView_render(agreements, templates, slug)
        /\ UNCHANGED <<agreements, templates, signatures>>

\* The sign form posted with the request req.
HandleSignPost(req) ==
    LET out == AgreementSignView_post(DB, templates, req)
    IN  /\ Len(out.signatures) <= MaxSignatures
        /\ request' = req
        /\ response' = out.response
        /\ agreements' = out.agreements
        /\ signatures' = out.signatures
        /\ UNCHANGED templates

SignPost ==
    \E slug \in SLUGS, user \in USERS, data \in ReadTermsData,
       pnext \in Optional({PathUrl}), gnext \in {{OtherHostUrl}} :
        HandleSignPost(Request("sign", "POST", slug, "p1", user, SiteHost,
                               data, pnext, gnext))

----------------------------------------------------------------------------
(* Specification of the views *)

Init ==
    /\ agreements \in AgreementTables
    /\ templates \in TemplateStores
    /\ signatures = <<>>
    /\ request = NoRequest
    /\ response = NoResponse

Next == DetailGet \/ ListGet \/ SignGet \/ SignPost

Spec == Init /\ [][Next]_vars

----------------------------------------------------------------------------
(* Specification of the redirect target: the sign form posted once, checked, *)
(* with the redirect parameter drawn from every url up to MaxUrlLen          *)

InitRedirect ==
    /\ agreements = {[slug |-> "tos", provider |-> "p1"]}
    /\ templates = {agreement_template_name("tos")}
    /\ signatures = <<>>
    /\ \E host \in HOSTS, pnext \in Optional({PathUrl}),
          gnext \in Optional(AllUrls) :
            request = Request("sign", "POST", "tos", "p1", "alice", host,
                              "on", pnext, gnext)
    /\ response = NoResponse

PostDrawn == response.status = 0 /\ HandleSignPost(request)

NextRedirect == PostDrawn

SpecRedirect == InitRedirect /\ [][NextRedirect]_vars

----------------------------------------------------------------------------
(* Vocabulary of the properties *)

\* The last request handled was a POST of the sign form.
SignPosted == request.view = "sign" /\ request.method = "POST"

\* The read_terms checkbox was checked in the form data of req.
Checked(req) == req.read_terms = "on"

\* The request carries a redirect parameter, in POST or in the query string.
HasRedirectParam(req) == req.POST_next # {} \/ req.GET_next # {}

\* The value of the redirect parameter of a request that carries one.
RedirectParam(req) == CHOOSE u \in req.POST_next \cup req.GET_next :
                          req.POST_next # {} => u \in req.POST_next

\* A page was rendered for the last request.
Rendered == response.status = 200

Redirected == response.status = 302

----------------------------------------------------------------------------
(* Properties of the sign form *)

\* C1: a step creates or changes Signature records only when it handles a
\* POST of the sign form whose own data has read_terms checked; a POST with
\* the checkbox unchecked leaves the Signature records as they were.
C1_SignatureOnlyWhenChecked ==
    [][/\ signatures' # signatures => (SignPosted' /\ Checked(request'))
       /\ (SignPosted' /\ ~Checked(request')) =>
              (signatures' = signatures /\ response'.status # 302)]_vars

\* C1 witness: the form was posted without read_terms, redisplayed, and no
\* Signature exists.
C1_Witness ==
    /\ SignPosted /\ request.read_terms = Missing
    /\ Rendered /\ "form" \in response.context
    /\ signatures = <<>>

\* C2: a step that handles a checked POST of the sign form appends exactly
\* one Signature, for the slug of the url and the user of the request, and
\* answers with a redirect to get_success_url.
C2_CheckedPostSignsAndRedirects ==
    [][(SignPosted' /\ Checked(request')) =>
          /\ signatures' = Append(signatures, [agreement |-> request'.slug,
                                               user |-> request'.user])
          /\ response'.status = 302
          /\ response'.location = get_success_url(request')]_vars

\* C2 witness: bob posted the checked form for "privacy": one Signature of
\* bob for "privacy", and a redirect to the posted path.
C2_Witness ==
    /\ SignPosted /\ Checked(request) /\ Redirected
    /\ request.user = "bob" /\ request.slug = "privacy"
    /\ signatures = <<[agreement |-> "privacy", user |-> "bob"]>>
    /\ request.POST_next = {PathUrl} /\ response.location = PathUrl

\* C10: no step creates, changes or deletes an Agreement record or a
\* template resource; an unchecked POST changes no record at all; the one
\* change a step makes to the records is one Signature appended by a checked
\* POST of the sign form.
C10_AgreementsReadOnly ==
    [][/\ agreements' = agreements
       /\ templates' = templates
       /\ \/ signatures' = signatures
          \/ /\ SignPosted' /\ Checked(request')
             /\ Len(signatures') = Len(signatures) + 1
             /\ SubSeq(signatures', 1, Len(signatures)) = signatures]_vars

\* C10 witness: the form was signed for a slug that has no Agreement record,
\* and there is still none.
C10_Witness ==
    /\ SignPosted /\ Redirected /\ Len(signatures) = 1
    /\ ~has_agreement(agreements, request.slug)

----------------------------------------------------------------------------
(* Properties of the redirect target (under SpecRedirect) *)

\* C3: when the redirect parameter has a network location that is not empty
\* and is not the host of the request, the redirect goes to
\* LOGIN_REDIRECT_URL and not to the parameter.
C3_OtherHostFallsBack ==
    (/\ Redirected /\ HasRedirectParam(request)
     /\ urlparse_netloc(RedirectParam(request)) # <<>>
     /\ urlparse_netloc(RedirectParam(request)) # request.host)
        => /\ response.location = LOGIN_REDIRECT_URL
           /\ response.location # RedirectParam(request)

\* C3 witness: "m://e" asked for on host "m", answered with the default.
C3_Witness ==
    /\ Redirected /\ request.host = <<"m">>
    /\ request.POST_next = {} /\ request.GET_next = {OtherHostUrl}
    /\ response.location = LOGIN_REDIRECT_URL

C9_EmptyFallsBack ==
    (Redirected /\ (~HasRedirectParam(request)
                       \/ RedirectParam(request) = <<>>))
        => response.location = LOGIN_REDIRECT_URL

----------------------------------------------------------------------------
(* Properties of the pages *)

C6_MissingIsNotFound ==
    (/\ request.view = "detail"
     /\ \/ ~has_agreement(agreements, request.slug)
        \/ /\ agreement_template_name(request.slug) \notin templates
           /\ documented_template_name(request.slug) \notin templates)
        => response.status = 404

C8_ReadsDocumentedResource ==
    (Rendered /\ request.view \in {"detail", "sign"}) =>
        response.page.source = documented_template_name(request.slug)

====
